---- MODULE Spec2Model ----
(***************************************************************************)
(* BirdSong-Visualizer: the DSP pipeline (spectrogram, mel filterbank,     *)
(* MFCC, PCA), the audio worker that sequences it and the AudioProcessor   *)
(* that talks to the worker from the main thread.                          *)
(*                                                                         *)
(* Arrays are modelled by their shape: a Float32Array is its length, a     *)
(* matrix is the sequence of its rows, each row [idx, len] remembering the *)
(* frame it was computed from and its length.  Sample values are not       *)
(* modelled.  Progress fractions are kept in tenths (0.1 is 1, 1.0 is 10). *)
(***************************************************************************)
EXTENDS Integers, Sequences, FiniteSets, TLC

VARIABLES
    worker,          \* AudioProcessor.worker: "live" or "null"
    messageId,       \* AudioProcessor.messageId
    callbacks,       \* AudioProcessor.callbacks, in Map insertion order
    promise,         \* state of the promise returned by the c-th compute call
    calls,           \* number of compute calls made so far
    inbox,           \* messages posted to the worker, not yet handled
    outbox,          \* responses posted by the worker, not yet delivered
    wpc,             \* position of the worker inside self.onmessage
    cur,             \* the message self.onmessage is handling
    locals,          \* spectrogram, melFilterbank, mfcc of the running handler
    emitted,         \* history: every response the worker has posted
    phases,          \* history: phases started, per run
    handled,         \* history: number of messages self.onmessage has taken
    cancelRequested, \* history: runs whose callback a cancel() call removed
    cancels,         \* number of cancel() calls made so far
    progressSeen,    \* history: what each onProgress callback was given
    requests,        \* history: the request posted for each run
    filterbankLog,   \* history: MelFilterbank objects built and applied
    fnArgs,          \* arguments of a direct call of computeSpectrogram
    fnResult,        \* its result
    app,             \* the App component: its state and handleVideoSelected runs
    recorder         \* a ManifoldVideoRecorder, its timers and the clock

vars == <<worker, messageId, callbacks, promise, calls, inbox, outbox, wpc,
          cur, locals, emitted, phases, handled, cancelRequested, cancels,
          progressSeen, requests, filterbankLog, fnArgs, fnResult, app,
          recorder>>

uiVars == <<app, recorder>>

procVars == <<worker, messageId, callbacks, promise, calls, inbox, outbox,
              wpc, cur, locals, emitted, phases, handled, cancelRequested,
              cancels, progressSeen, requests, filterbankLog>>

(***************************************************************************)
(* Bounds of the model.                                                    *)
(***************************************************************************)
MaxRuns == 2
MaxCancels == 1
MaxExtraFrames == 1
MaxLen == 7
MaxWindow == 4
MaxHop == 3
MaxCap == 3
MaxFftSize == 8
MaxSteps == 2
MaxMelBins == 2
MaxFeatures == 3
\* depth of fft recursion the call stack has room for
MaxStack == 16
MaxSamples == 3
MaxSelections == 1
\* recording options: duration in half seconds, frames per second
MaxDuration == 3
MaxFps == 2
\* capture timers pending at once, and frame intervals the clock runs for
MaxTimers == 3
MaxElapsed == 4

(***************************************************************************)
(* DSP_CONFIG                                                              *)
(***************************************************************************)
windowSize == 2048
hopSize == 512
melBins == 128
mfccCount == 40
maxFrames == 2000
DefaultFftSize == 2048
PcaDims == 3

Min(a, b) == IF a < b THEN a ELSE b
Max(a, b) == IF a > b THEN a ELSE b

NoSamples == -1

Ok(v) == [threw |-> FALSE, val |-> v, message |-> ""]
Throw(m) == [threw |-> TRUE, val |-> <<>>, message |-> m]

(***************************************************************************)
(* windowing.ts                                                            *)
(***************************************************************************)
hannWindow(size) == size

applyWindow(samplesLen, windowLen) ==
    IF samplesLen # windowLen
    THEN [threw |-> TRUE, len |-> 0,
          message |-> "Samples and window must have the same length"]
    ELSE [threw |-> FALSE, len |-> samplesLen, message |-> ""]

(***************************************************************************)
(* fft.ts                                                                  *)
(***************************************************************************)
RECURSIVE Pow2Ceil(_)
\* Math.pow(2, Math.ceil(Math.log2(n))) for an integer n >= 0: log2(0) is
\* -Infinity and 2 to that power is 0
Pow2Ceil(n) ==
    IF n <= 0 THEN 0
    ELSE IF n = 1 THEN 1
    ELSE 2 * Pow2Ceil((n + 1) \div 2)

RECURSIVE fftRec(_, _)
\* fft on an input of length N, entered with depth frames of fft already on
\* the call stack: the length of the real and imag arrays it returns, or the
\* RangeError of a call stack that is used up
fftRec(N, depth) ==
    IF N = 1 THEN [threw |-> FALSE, len |-> 1, message |-> ""]
    ELSE IF depth >= MaxStack
    THEN [threw |-> TRUE, len |-> 0,
          message |-> "Maximum call stack size exceeded"]
    ELSE LET evenFFT == fftRec(N \div 2, depth + 1)
             oddFFT == evenFFT    \* odd has the length of even
         IN  IF evenFFT.threw \/ oddFFT.threw THEN evenFFT
             ELSE [threw |-> FALSE, len |-> N, message |-> ""]

fft(N) == fftRec(N, 0)

\* computeFFT keeping the whole input instead of the first actualSize samples
computeFFT_SizeFromInput(samplesLen, fftSize) ==
    LET actualSize == Pow2Ceil(Max(samplesLen, fftSize))
        out == fft(actualSize)
    IN  [threw |-> out.threw, len |-> out.len,
         copied |-> Min(samplesLen, actualSize), message |-> out.message]

\* len: length of the real and imag arrays returned; copied: number of input
\* samples that were copied into the transform's input
computeFFT(samplesLen, fftSize) ==
    LET actualSize == Pow2Ceil(fftSize)
        out == fft(actualSize)
    IN  [threw |-> out.threw, len |-> out.len,
         copied |-> Min(samplesLen, actualSize), message |-> out.message]

magnitudeSpectrum(fftLen) == fftLen

(***************************************************************************)
(* spectrogram.ts                                                          *)
(***************************************************************************)
\* the frame count without the "+ 1" of the last full window
nFramesOf_NoPlusOne(len, wSize, hSize, cap) ==
    Min(cap, (len - wSize) \div hSize)

nFramesOf(len, wSize, hSize, cap) ==
    Min(cap, ((len - wSize) \div hSize) + 1)

\* the frame cut to fftSize/2 bins, the Nyquist bin lost
frameOf_HalfBins(frameIdx, wSize, fftSize) ==
    LET windowed == applyWindow(wSize, hannWindow(wSize))
        fftOut == computeFFT(fftSize, fftSize)
        magnitude == magnitudeSpectrum(fftOut.len)
        nBins == fftSize \div 2
    IN  IF windowed.threw THEN Throw(windowed.message)
        ELSE IF fftOut.threw THEN Throw(fftOut.message)
        ELSE Ok([idx |-> frameIdx, len |-> Min(magnitude, nBins)])

frameOf(frameIdx, wSize, fftSize) ==
    LET windowed == applyWindow(wSize, hannWindow(wSize))
        fftOut == computeFFT(fftSize, fftSize)
        magnitude == magnitudeSpectrum(fftOut.len)
        nBins == (fftSize \div 2) + 1
    IN  IF windowed.threw THEN Throw(windowed.message)
        ELSE IF fftOut.threw THEN Throw(fftOut.message)
        ELSE Ok([idx |-> frameIdx, len |-> Min(magnitude, nBins)])

RECURSIVE spectrogramLoop(_, _, _, _, _, _, _)
spectrogramLoop(frameIdx, nFrames, len, wSize, hSize, fftSize, acc) ==
    IF ~(frameIdx < nFrames) THEN Ok(acc)
    ELSE LET start == frameIdx * hSize
         IN  IF start + wSize > len THEN Ok(acc)
             ELSE LET f == frameOf(frameIdx, wSize, fftSize)
                  IN  IF f.threw THEN f
                      ELSE spectrogramLoop(frameIdx + 1, nFrames, len, wSize,
                                           hSize, fftSize, Append(acc, f.val))

\* nBins taken from the FFT size instead of from the first frame
computeSpectrogram_NBinsFromFft(samples, sampleRate, wSize, hSize, cap) ==
    IF samples = NoSamples
    THEN Throw("Cannot read properties of null (reading 'length')")
    ELSE LET nFrames == nFramesOf(samples, wSize, hSize, cap)
             fftSize == Pow2Ceil(wSize)
             r == spectrogramLoop(0, nFrames, samples, wSize, hSize, fftSize,
                                  <<>>)
         IN  IF r.threw THEN r
             ELSE Ok([data |-> r.val, sampleRate |-> sampleRate,
                      hopSize |-> hSize, windowSize |-> wSize,
                      nFrames |-> Len(r.val),
                      nBins |-> (fftSize \div 2) + 1])

computeSpectrogram(samples, sampleRate, wSize, hSize, cap) ==
    IF samples = NoSamples
    THEN Throw("Cannot read properties of null (reading 'length')")
    ELSE LET nFrames == nFramesOf(samples, wSize, hSize, cap)
             fftSize == Pow2Ceil(wSize)
             r == spectrogramLoop(0, nFrames, samples, wSize, hSize, fftSize,
                                  <<>>)
         IN  IF r.threw THEN r
             ELSE Ok([data |-> r.val, sampleRate |-> sampleRate,
                      hopSize |-> hSize, windowSize |-> wSize,
                      nFrames |-> Len(r.val),
                      nBins |-> IF Len(r.val) > 0 THEN r.val[1].len ELSE 0])

\* DSP_CONFIG.preEmphasisCoeff, in hundredths
preEmphasisCoeff == 97

\* the pre-emphasis filter of computeSpectrogram on integer samples:
\* preEmphasized in hundredths, and the caller's samples after the loop
preEmphasis(samples) ==
    [preEmphasized |->
         [i \in 1..Len(samples) |->
             IF i = 1 THEN 100 * samples[1]
             ELSE 100 * samples[i] - preEmphasisCoeff * samples[i - 1]],
     samples |-> samples]

(***************************************************************************)
(* melFilterbank.ts                                                        *)
(***************************************************************************)
MelFilterbank(sampleRate, fftSize) ==
    [sampleRate |-> sampleRate, fftSize |-> fftSize, melBins |-> melBins,
     filterLen |-> (fftSize \div 2) + 1]

\* the expected bin count without the Nyquist bin
apply_HalfBins(fb, spectrumLen) ==
    LET expectedBins == fb.fftSize \div 2
    IN  IF spectrumLen # expectedBins
        THEN [threw |-> TRUE, len |-> 0,
              message |-> "Magnitude spectrum size mismatch"]
        ELSE [threw |-> FALSE, len |-> fb.melBins, message |-> ""]

apply(fb, spectrumLen) ==
    LET expectedBins == (fb.fftSize \div 2) + 1
    IN  IF spectrumLen # expectedBins
        THEN [threw |-> TRUE, len |-> 0,
              message |-> "Magnitude spectrum size mismatch"]
        ELSE [threw |-> FALSE, len |-> fb.melBins, message |-> ""]

(***************************************************************************)
(* mfcc.ts                                                                 *)
(***************************************************************************)
dct2(inputLen, count) == count

RECURSIVE mfccLoop(_, _, _, _, _)
mfccLoop(i, data, fb, count, acc) ==
    IF i > Len(data) THEN Ok(acc)
    ELSE LET melSpectrum == apply(fb, data[i].len)
         IN  IF melSpectrum.threw THEN Throw(melSpectrum.message)
             ELSE mfccLoop(i + 1, data, fb, count,
                           Append(acc, [idx |-> data[i].idx,
                                        len |-> dct2(melSpectrum.len, count)]))

computeMFCC(spectrogram, fb, count) ==
    mfccLoop(1, spectrogram.data, fb, count, <<>>)

\* entries of the history of MelFilterbank objects
Built(run, fb) == [op |-> "new", run |-> run, frame |-> -1, fb |-> fb]
Applied(run, frame, fb) ==
    [op |-> "apply", run |-> run, frame |-> frame, fb |-> fb]

\* an apply that trims the filter table to the spectrum it was given
afterApply_Trimmed(fb, spectrumLen) ==
    [fb EXCEPT !.filterLen = Min(@, spectrumLen - 1)]

\* the MelFilterbank object after apply returned or threw: apply writes to
\* melSpectrum and sum only
afterApply(fb, spectrumLen) == fb

RECURSIVE filterbankUsesLoop(_, _, _, _, _)
filterbankUsesLoop(i, run, data, fb, log) ==
    IF i > Len(data) THEN [fb |-> fb, log |-> log]
    ELSE LET used == Append(log, Applied(run, data[i].idx, fb))
             after == afterApply(fb, data[i].len)
         IN  IF apply(fb, data[i].len).threw THEN [fb |-> after, log |-> used]
             ELSE filterbankUsesLoop(i + 1, run, data, after, used)

\* the calls of apply that computeMFCC makes, each with the object as it is
\* when the call is made, and the object when computeMFCC is left; computeMFCC
\* constructs no MelFilterbank
filterbankUses(run, spectrogram, fb) ==
    filterbankUsesLoop(1, run, spectrogram.data, fb, <<>>)

(***************************************************************************)
(* pca.ts                                                                  *)
(***************************************************************************)
\* the projection loop stopping one frame early
computePCA3D_DropLast(mfcc) ==
    IF Len(mfcc) = 0 THEN <<>>
    ELSE [t \in 1..(Len(mfcc) - 1) |-> [idx |-> mfcc[t].idx, len |-> PcaDims]]

computePCA3D(mfcc) ==
    IF Len(mfcc) = 0 THEN <<>>
    ELSE LET timeSteps == Len(mfcc)
         IN  [t \in 1..timeSteps |-> [idx |-> mfcc[t].idx, len |-> PcaDims]]

(***************************************************************************)
(* melFilterbank.ts and mfcc.ts on values.  Frequencies are integers; a    *)
(* weight, a magnitude and a coefficient are kept as the kind of number    *)
(* they are: "zero", "finite" (finite and not 0), "NaN" or "Infinity".     *)
(* Band edges are taken where log10 and the power of 10 are integers, so   *)
(* that every frequency of the run is the floating-point one.              *)
(***************************************************************************)
Decades == 0..2
PowersOfTen == {10 ^ k : k \in Decades}
Log10(x) == CHOOSE k \in Decades : 10 ^ k = x

\* 2595 * Math.log10(1 + hz / 700)
hzToMel(hz) == 2595 * Log10(1 + (hz \div 700))
\* 700 * (Math.pow(10, mel / 2595) - 1)
melToHz(mel) == 700 * ((10 ^ (mel \div 2595)) - 1)

IsFinite(x) == x \in {"zero", "finite"}

\* a / b of two integers
Ratio(a, b) ==
    IF b = 0 THEN (IF a = 0 THEN "NaN" ELSE "Infinity")
    ELSE IF a = 0 THEN "zero" ELSE "finite"

\* x * y
Times(x, y) ==
    IF x = "NaN" \/ y = "NaN" THEN "NaN"
    ELSE IF x = "zero" \/ y = "zero"
    THEN (IF x = "Infinity" \/ y = "Infinity" THEN "NaN" ELSE "zero")
    ELSE IF x = "Infinity" \/ y = "Infinity" THEN "Infinity"
    ELSE "finite"

\* x + y of two numbers that are not negative
Plus(x, y) ==
    IF x = "NaN" \/ y = "NaN" THEN "NaN"
    ELSE IF x = "Infinity" \/ y = "Infinity" THEN "Infinity"
    ELSE IF x = "zero" /\ y = "zero" THEN "zero"
    ELSE "finite"

RECURSIVE Accumulate(_, _)
\* a loop "sum += f[i]" over i = 1..n, sum starting at 0
Accumulate(f, n) ==
    IF n = 0 THEN "zero" ELSE Plus(Accumulate(f, n - 1), f[n])

\* the band edges after the constructor clipped fMax to the Nyquist frequency
UpperEdge(sampleRate, fMax) == Min(fMax, sampleRate \div 2)

\* the melBins + 2 mel values of createFilters
melPoints(sampleRate, nMel, fMin, fMax) ==
    LET melMin == hzToMel(fMin)
        melMax == hzToMel(UpperEdge(sampleRate, fMax))
        melSpacing == (melMax - melMin) \div (nMel + 1)
    IN  [i \in 1..(nMel + 2) |-> melMin + melSpacing * (i - 1)]

\* the weight of createFilters at frequency freq of the triangle
\* leftFreq, centerFreq, rightFreq
triangleWeight(freq, leftFreq, centerFreq, rightFreq) ==
    IF freq >= leftFreq /\ freq <= centerFreq
    THEN Ratio(freq - leftFreq, centerFreq - leftFreq)
    ELSE IF freq > centerFreq /\ freq <= rightFreq
    THEN Ratio(rightFreq - freq, rightFreq - centerFreq)
    ELSE "zero"

createFilters(sampleRate, fftSize, nMel, fMin, fMax) ==
    LET freqResolution == sampleRate \div fftSize
        nFreqBins == (fftSize \div 2) + 1
        mels == melPoints(sampleRate, nMel, fMin, fMax)
        centerFreqs == [i \in 1..(nMel + 2) |-> melToHz(mels[i])]
    IN  [melIdx \in 1..nMel |->
            [freqIdx \in 1..nFreqBins |->
                triangleWeight((freqIdx - 1) * freqResolution,
                               centerFreqs[melIdx], centerFreqs[melIdx + 1],
                               centerFreqs[melIdx + 2])]]

\* new MelFilterbank(sampleRate, fftSize, melBins, fMin, fMax)
MelFilterbankValues(sampleRate, fftSize, nMel, fMin, fMax) ==
    [sampleRate |-> sampleRate, fftSize |-> fftSize, melBins |-> nMel,
     filters |-> createFilters(sampleRate, fftSize, nMel, fMin, fMax)]

\* apply on the values of a magnitude spectrum of the expected size
applyValues(fb, magnitudes) ==
    [melIdx \in 1..fb.melBins |->
        LET filterSize == Min(Len(fb.filters[melIdx]), Len(magnitudes))
        IN  Accumulate([freqIdx \in 1..filterSize |->
                           Times(fb.filters[melIdx][freqIdx],
                                 magnitudes[freqIdx])],
                       filterSize)]

\* Math.log10(power + 1e-10) of a power that is not negative
LogOf(power) == IF IsFinite(power) THEN "finite" ELSE power

\* one coefficient of dct2: the sum of input[i] * cos(angle), scaled by a
\* factor that divides by n
dctCoefficient(input) ==
    LET n == Len(input)
        sum == Accumulate([i \in 1..n |-> Times(input[i], "finite")], n)
    IN  IF n = 0 THEN "NaN"
        ELSE IF IsFinite(sum) THEN "finite" ELSE sum

dct2Values(input, count) == [k \in 1..count |-> dctCoefficient(input)]

\* computeMFCC on the values of the frames
computeMFCCValues(data, fb, count) ==
    [t \in 1..Len(data) |->
        LET melSpectrum == applyValues(fb, data[t])
            powerSpectrum == [i \in 1..Len(melSpectrum) |->
                                 Times(melSpectrum[i], melSpectrum[i])]
            logMel == [i \in 1..Len(powerSpectrum) |->
                          LogOf(powerSpectrum[i])]
        IN  dct2Values(logMel, count)]

(***************************************************************************)
(* pca.ts on values.  Numbers are integers: a frame is the sequence of its *)
(* features, a Float32Array of n*n entries is a sequence of that length.   *)
(* "exact" tells whether every quotient and square root of the run is an   *)
(* integer, that is whether the integer run is the floating-point run; the *)
(* other fields have a meaning only when it is TRUE.                       *)
(* "divisors" lists every division the run performs.                       *)
(***************************************************************************)
PowerIterations == 10

\* the array with the entries of f, all computed
Filled(f) == SubSeq(f, 1, Len(f))

RECURSIVE SumTo(_, _)
\* a loop "sum += f[i]" over i = 1..n
SumTo(f, n) == IF n = 0 THEN 0 ELSE SumTo(f, n - 1) + f[n]

Dot(u, v) == SumTo([i \in 1..Len(u) |-> u[i] * v[i]], Len(u))

\* Math.sqrt on a non-negative integer, rounded down
Sqrt(x) == CHOOSE r \in 0..x : r * r <= x /\ (r + 1) * (r + 1) > x

\* a / b; a division by 0 leaves no number: it is kept in "divisors", where
\* it is looked for, and the run goes on with 0
Quotient(a, b) == IF b = 0 THEN 0 ELSE a \div b
Divides(b, a) == b = 0 \/ (a - b * (a \div b)) = 0

\* "x > 1e-6" for an integer x
AboveEpsilon(x) == x >= 1

Division(site, by) == [site |-> site, by |-> by]

RECURSIVE orthogonalize(_, _, _)
\* the loop over prevIdx: vec -= (vec . components[prevIdx]) * components[prevIdx]
orthogonalize(vec, components, prevIdx) ==
    IF prevIdx > Len(components) THEN vec
    ELSE LET dot == Dot(vec, components[prevIdx])
         IN  orthogonalize(Filled([i \in 1..Len(vec) |->
                                      vec[i] - dot * components[prevIdx][i]]),
                           components, prevIdx + 1)

\* one round of the power iteration before the re-orthogonalization
powerStep(covariance, n, vec) ==
    LET newVec == Filled([i \in 1..n |->
                             SumTo([j \in 1..n |->
                                       covariance[(i - 1) * n + j] * vec[j]],
                                   n)])
        normSq == Dot(newVec, newVec)
        norm == Sqrt(normSq)
    IN  [vec |-> IF AboveEpsilon(norm)
                 THEN Filled([i \in 1..n |-> Quotient(newVec[i], norm)])
                 ELSE newVec,
         products |-> n * n,
         exact |-> /\ norm * norm = normSq
                   /\ AboveEpsilon(norm) =>
                         \A i \in 1..n : Divides(norm, newVec[i]),
         divisors |-> IF AboveEpsilon(norm)
                      THEN Filled([i \in 1..n |-> Division("norm", norm)])
                      ELSE <<>>]

\* a loop that also ends once the vector has vanished
anotherRound_UntilVanished(iter, vec) ==
    iter < PowerIterations /\ Dot(vec, vec) # 0

\* the condition of "for (let iter = 0; iter < 10; iter++)": vec is not read
anotherRound(iter, vec) == iter < PowerIterations

RECURSIVE powerIteration(_, _, _, _, _)
\* the rounds iter..9 of the power iteration, each followed by the
\* re-orthogonalization; an inexact round ends the integer run.  "rounds"
\* counts the rounds made, "products" the multiplications of line 129.
\* st and step are bound as elements of a singleton, so that each is
\* computed once a round, as vec and newVec are
powerIteration(covariance, n, state, components, iter) ==
    CHOOSE result \in
        {IF ~anotherRound(iter, st.vec) THEN st
         ELSE CHOOSE next \in
             {IF ~step.exact THEN [st EXCEPT !.exact = FALSE]
              ELSE powerIteration(covariance, n,
                       [vec |-> orthogonalize(step.vec, components, 1),
                        exact |-> TRUE,
                        divisors |-> st.divisors \o step.divisors,
                        rounds |-> st.rounds + 1,
                        products |-> st.products + step.products],
                       components, iter + 1) :
              step \in {powerStep(covariance, n, st.vec)}} : TRUE :
         st \in {state}} : TRUE

RECURSIVE topEigenvectorsLoop(_, _, _, _, _)
\* the loop over pcIdx; acc and found are computed once an axis
topEigenvectorsLoop(covariance, n, k, pcIdx, sofar) ==
    CHOOSE result \in
        {IF ~(pcIdx < k) THEN acc
         ELSE LET init == Filled([i \in 1..n |->
                                     IF i - 1 = pcIdx % n THEN 1 ELSE 0])
                  start == orthogonalize(init, acc.components, 1)
              IN  CHOOSE next \in
             {IF ~found.exact THEN [acc EXCEPT !.exact = FALSE]
              ELSE topEigenvectorsLoop(covariance, n, k, pcIdx + 1,
                       [components |-> Append(acc.components, found.vec),
                        exact |-> TRUE,
                        divisors |-> acc.divisors \o found.divisors,
                        rounds |-> Append(acc.rounds, found.rounds),
                        products |-> acc.products + found.products]) :
              found \in {powerIteration(covariance, n,
                                        [vec |-> start, exact |-> TRUE,
                                         divisors |-> <<>>, rounds |-> 0,
                                         products |-> 0],
                                        acc.components, 0)}} : TRUE :
         acc \in {sofar}} : TRUE

computeTopEigenvectors(covariance, n, k) ==
    topEigenvectorsLoop(covariance, n, k, 0,
                        [components |-> <<>>, exact |-> TRUE,
                         divisors |-> <<>>, rounds |-> <<>>,
                         products |-> 0])

\* the covariance scaled by 1/(T-1) without the floor of 1
covarianceDivisor_Unguarded(timeSteps) == timeSteps - 1

\* the divisor of "scale = 1.0 / Math.max(1, timeSteps - 1)"
covarianceDivisor(timeSteps) == Max(1, timeSteps - 1)

\* what is kept of a run that left the integers
Inexact == [points |-> <<>>, components |-> <<>>, std |-> <<>>,
            exact |-> FALSE, divisors |-> <<>>, rounds |-> <<>>,
            products |-> 0, frames |-> <<>>]

\* the means subtracted from the rows the caller handed over
centering_InPlace(frames, means) ==
    LET centered == [t \in 1..Len(frames) |->
                        [f \in 1..Len(means) |-> frames[t][f] - means[f]]]
    IN  [matrix |-> centered, frames |-> centered]

\* "matrix.push(...frame)" copies the features into a new array and the
\* centering loop writes to that array: matrix after the loop, and the
\* caller's frames after it
centering(frames, means) ==
    [matrix |-> [t \in 1..Len(frames) |->
                    [f \in 1..Len(means) |-> frames[t][f] - means[f]]],
     frames |-> frames]

\* computePCA3D on the values of the frames
computePCA3DValues(frames) ==
    IF Len(frames) = 0
    THEN [points |-> <<>>, components |-> <<>>, std |-> <<>>,
          exact |-> TRUE, divisors |-> <<>>, rounds |-> <<>>,
          products |-> 0, frames |-> frames]
    ELSE
    LET featureCount == Len(frames[1])
        timeSteps == Len(frames)
        Fs == 1..featureCount
        Ts == 1..timeSteps
        PCs == 1..PcaDims
        sums == [f \in Fs |-> SumTo([t \in Ts |-> frames[t][f]], timeSteps)]
        means == [f \in Fs |-> Quotient(sums[f], timeSteps)]
        centered == centering(frames, means)
        matrix == centered.matrix
        divisor == covarianceDivisor(timeSteps)
        products ==
            [e \in 1..(featureCount * featureCount) |->
                LET i == ((e - 1) \div featureCount) + 1
                    j == ((e - 1) % featureCount) + 1
                IN  SumTo([t \in Ts |-> matrix[t][i] * matrix[t][j]],
                          timeSteps)]
        covariance == [e \in DOMAIN products |->
                          Quotient(products[e], divisor)]
        eig == computeTopEigenvectors(covariance, featureCount, PcaDims)
        projected == [t \in Ts |->
                         [pc \in PCs |-> Dot(matrix[t], eig.components[pc])]]
        total == [pc \in PCs |->
                     SumTo([t \in Ts |-> projected[t][pc]], timeSteps)]
        mean == [pc \in PCs |-> Quotient(total[pc], timeSteps)]
        squares == [pc \in PCs |->
                       SumTo([t \in Ts |->
                                 (projected[t][pc] - mean[pc])
                                     * (projected[t][pc] - mean[pc])],
                             timeSteps)]
        variance == [pc \in PCs |-> Quotient(squares[pc], timeSteps)]
        std == [pc \in PCs |-> Sqrt(variance[pc])]
        zscoreOf(pc) ==
            IF AboveEpsilon(std[pc])
            THEN [t \in Ts |-> Division("zscore", std[pc])]
            ELSE <<>>
    IN  IF ~(/\ \A f \in Fs : Divides(timeSteps, sums[f])
             /\ \A e \in DOMAIN products : Divides(divisor, products[e])
             /\ eig.exact)
        THEN Inexact
        ELSE
        [points |->
             [t \in Ts |->
                 [pc \in PCs |->
                     IF AboveEpsilon(std[pc])
                     THEN Quotient(projected[t][pc] - mean[pc], std[pc])
                     ELSE projected[t][pc]]],
         components |-> eig.components,
         rounds |-> eig.rounds,
         products |-> eig.products,
         frames |-> centered.frames,
         std |-> std,
         exact |->
             \A pc \in PCs :
                   /\ Divides(timeSteps, total[pc])
                   /\ Divides(timeSteps, squares[pc])
                   /\ std[pc] * std[pc] = variance[pc]
                   /\ AboveEpsilon(std[pc]) =>
                         \A t \in Ts :
                             Divides(std[pc], projected[t][pc] - mean[pc]),
         divisors |->
             [f \in Fs |-> Division("means", timeSteps)]
                 \o <<Division("scale", divisor)>>
                 \o eig.divisors
                 \o <<Division("mean", timeSteps),
                      Division("variance", timeSteps)>> \o zscoreOf(1)
                 \o <<Division("mean", timeSteps),
                      Division("variance", timeSteps)>> \o zscoreOf(2)
                 \o <<Division("mean", timeSteps),
                      Division("variance", timeSteps)>> \o zscoreOf(3)]

(***************************************************************************)
(* Inputs of the model                                                     *)
(***************************************************************************)
SampleRates == {44100}

\* sample buffers a caller hands over: not an array, the empty buffer, one
\* sample short of a window, and one window plus k hops
SampleChoices ==
    {NoSamples, 0, windowSize - 1}
        \cup {windowSize + k * hopSize : k \in 0..MaxExtraFrames}

\* the samples of one clip, one window and one hop long, as the App hands
\* them to both of its requests
ClipSamples == {windowSize + hopSize}

KnownTypes == {"COMPUTE_SPECTROGRAM", "COMPUTE_MFCC_PCA", "CANCEL"}
UnknownTypes == {"LOAD_VIDEO", "EXTRACT_AUDIO"}

NoMsg == [type |-> "none", run |-> -1, samples |-> 0, sampleRate |-> 0]
NoFilterbank == [sampleRate |-> 0, fftSize |-> 0, melBins |-> 0, filterLen |-> 0]
NoSpectrogram == [data |-> <<>>, sampleRate |-> 0, hopSize |-> 0,
                  windowSize |-> 0, nFrames |-> 0, nBins |-> 0]
NoLocals == [spectrogram |-> NoSpectrogram, melFilterbank |-> NoFilterbank,
             mfcc |-> <<>>]

(***************************************************************************)
(* types.ts: WorkerResponse                                                *)
(***************************************************************************)
Response(type, run, progress, message, payload) ==
    [type |-> type, run |-> run, progress |-> progress, message |-> message,
     payload |-> payload]

ProgressMsg(run, fraction) == Response("PROGRESS", run, fraction, "", <<>>)
ErrorMsg(run, text) == Response("ERROR", run, 0, text, <<>>)
\* a result posted without its payload
ResultMsg_NoPayload(type, run, payload) == Response(type, run, 0, "", <<>>)

ResultMsg(type, run, payload) == Response(type, run, 0, "", payload)

IsTerminal(m) == m.type \in {"SPECTROGRAM_COMPUTED", "MFCC_PCA_COMPUTED", "ERROR"}
IsResult(m) == m.type \in {"SPECTROGRAM_COMPUTED", "MFCC_PCA_COMPUTED"}

(***************************************************************************)
(* audioProcessor.worker.ts: self.onmessage                                *)
(***************************************************************************)
\* the MFCC step reporting 0.2 instead of 0.5
ProgressOf_MfccLow(phase) ==
    CASE phase = "S_spectrogram" -> 1
      [] phase = "S_result" -> 9
      [] phase = "M_spectrogram" -> 1
      [] phase = "M_mel" -> 3
      [] phase = "M_mfcc" -> 2
      [] phase = "M_pca" -> 8

\* progress fraction posted when a phase starts, in tenths
ProgressOf(phase) ==
    CASE phase = "S_spectrogram" -> 1
      [] phase = "S_result" -> 9
      [] phase = "M_spectrogram" -> 1
      [] phase = "M_mel" -> 3
      [] phase = "M_mfcc" -> 5
      [] phase = "M_pca" -> 8

\* the handler going from the spectrogram straight to computeMFCC
NextPhase_SkipMel(phase) ==
    CASE phase = "S_spectrogram" -> "S_result"
      [] phase = "M_spectrogram" -> "M_mfcc"
      [] phase = "M_mel" -> "M_mfcc"
      [] phase = "M_mfcc" -> "M_pca"
      [] phase = "M_pca" -> "M_result"

\* the phase that follows a phase in the handler's straight-line code
NextPhase(phase) ==
    CASE phase = "S_spectrogram" -> "S_result"
      [] phase = "M_spectrogram" -> "M_mel"
      [] phase = "M_mel" -> "M_mfcc"
      [] phase = "M_mfcc" -> "M_pca"
      [] phase = "M_pca" -> "M_result"

\* the result posted before the second PROGRESS
SpectrogramResponses_ResultFirst(run, fraction, result) ==
    <<ResultMsg("SPECTROGRAM_COMPUTED", run,
                [data |-> result.data, sampleRate |-> result.sampleRate]),
      ProgressMsg(run, fraction)>>

\* the tail of case 'COMPUTE_SPECTROGRAM': second PROGRESS, then the result
SpectrogramResponses(run, fraction, result) ==
    <<ProgressMsg(run, fraction),
      ResultMsg("SPECTROGRAM_COMPUTED", run,
                [data |-> result.data, sampleRate |-> result.sampleRate])>>

\* a catch block that reports only the first failure of the worker's life
Caught_OnlyFirst(run, text) ==
    IF handled > 1 THEN <<>> ELSE <<ErrorMsg(run, text)>>

\* the catch block of a case: one ERROR, then break
Caught(run, text) == <<ErrorMsg(run, text)>>

\* a default case that only breaks
DefaultCase_Silent(msg) == <<>>

\* the default case of the switch
DefaultCase(msg) == <<ErrorMsg(msg.run, "Unknown message type")>>

Post(msgs) ==
    /\ outbox' = outbox \o msgs
    /\ emitted' = emitted \o msgs

StartPhase(run, phase) ==
    phases' = [phases EXCEPT ![run] = Append(@, phase)]

Take ==
    /\ wpc = "idle"
    /\ inbox # <<>>
    /\ inbox' = Tail(inbox)
    /\ handled' = handled + 1

mainVars == <<worker, messageId, callbacks, promise, calls, cancelRequested,
              cancels, progressSeen, requests>>

\* case 'COMPUTE_SPECTROGRAM': first PROGRESS, computeSpectrogram in flight
W_SpectrogramStart ==
    /\ Take
    /\ Head(inbox).type = "COMPUTE_SPECTROGRAM"
    /\ cur' = Head(inbox)
    /\ Post(<<ProgressMsg(Head(inbox).run, ProgressOf("S_spectrogram"))>>)
    /\ StartPhase(Head(inbox).run, "S_spectrogram")
    /\ wpc' = "S_spectrogram"
    /\ locals' = NoLocals
    /\ UNCHANGED <<mainVars, filterbankLog, fnArgs, fnResult, uiVars>>

\* computeSpectrogram returns or throws; second PROGRESS and the result
W_SpectrogramFinish ==
    /\ wpc = "S_spectrogram"
    /\ LET result == computeSpectrogram(cur.samples, cur.sampleRate,
                                        windowSize, hopSize, maxFrames)
       IN  IF result.threw
           THEN /\ Post(Caught(cur.run, result.message))
                /\ UNCHANGED phases
           ELSE /\ Post(SpectrogramResponses(cur.run,
                                              ProgressOf(NextPhase(wpc)),
                                              result.val))
                /\ StartPhase(cur.run, NextPhase(wpc))
    /\ wpc' = "idle"
    /\ cur' = NoMsg
    /\ locals' = NoLocals
    /\ UNCHANGED <<mainVars, filterbankLog, inbox, handled, fnArgs, fnResult, uiVars>>

\* case 'COMPUTE_MFCC_PCA': first PROGRESS, computeSpectrogram in flight
W_MfccPcaStart ==
    /\ Take
    /\ Head(inbox).type = "COMPUTE_MFCC_PCA"
    /\ cur' = Head(inbox)
    /\ Post(<<ProgressMsg(Head(inbox).run, ProgressOf("M_spectrogram"))>>)
    /\ StartPhase(Head(inbox).run, "M_spectrogram")
    /\ wpc' = "M_spectrogram"
    /\ locals' = NoLocals
    /\ UNCHANGED <<mainVars, filterbankLog, fnArgs, fnResult, uiVars>>

Abort(text) ==
    /\ Post(Caught(cur.run, text))
    /\ wpc' = "idle"
    /\ cur' = NoMsg
    /\ locals' = NoLocals
    /\ UNCHANGED phases

Advance ==
    /\ Post(<<ProgressMsg(cur.run, ProgressOf(NextPhase(wpc)))>>)
    /\ StartPhase(cur.run, NextPhase(wpc))
    /\ wpc' = NextPhase(wpc)
    /\ UNCHANGED cur

\* Step 1 ends: computeSpectrogram returns or throws; PROGRESS of step 2
W_MfccPcaSpectrogram ==
    /\ wpc = "M_spectrogram"
    /\ LET spectrogram == computeSpectrogram(cur.samples, cur.sampleRate,
                                             windowSize, hopSize, maxFrames)
       IN  IF spectrogram.threw
           THEN Abort(spectrogram.message)
           ELSE /\ Advance
                /\ locals' = [locals EXCEPT !.spectrogram = spectrogram.val]
    /\ UNCHANGED <<mainVars, filterbankLog, inbox, handled, fnArgs, fnResult, uiVars>>

\* the FFT size taken as twice the bin count of the first frame
filterbankFftSize_TwiceBins(data) ==
    IF Len(data) > 0 /\ data[1].len # 0
    THEN data[1].len * 2
    ELSE DefaultFftSize

\* spectrogram.data[0]?.length ? (spectrogram.data[0].length - 1) * 2 : 2048
filterbankFftSize(data) ==
    IF Len(data) > 0 /\ data[1].len # 0
    THEN (data[1].len - 1) * 2
    ELSE DefaultFftSize

\* Step 2 ends: the filterbank is built; PROGRESS of step 3
W_MfccPcaMel ==
    /\ wpc = "M_mel"
    /\ LET data == locals.spectrogram.data
           fftSize == filterbankFftSize(data)
           melFilterbank == MelFilterbank(cur.sampleRate, fftSize)
       IN  /\ Advance
           /\ locals' = [locals EXCEPT !.melFilterbank = melFilterbank]
           /\ filterbankLog' = Append(filterbankLog,
                                      Built(cur.run, melFilterbank))
    /\ UNCHANGED <<mainVars, inbox, handled, fnArgs, fnResult, uiVars>>

\* Step 3 ends: computeMFCC returns or throws; PROGRESS of step 4
W_MfccPcaMfcc ==
    /\ wpc = "M_mfcc"
    /\ LET mfcc == computeMFCC(locals.spectrogram, locals.melFilterbank,
                               mfccCount)
           uses == filterbankUses(cur.run, locals.spectrogram,
                                  locals.melFilterbank)
       IN  /\ filterbankLog' = filterbankLog \o uses.log
           /\ IF mfcc.threw
              THEN Abort(mfcc.message)
              ELSE /\ Advance
                   /\ locals' = [locals EXCEPT !.mfcc = mfcc.val,
                                               !.melFilterbank = uses.fb]
    /\ UNCHANGED <<mainVars, inbox, handled, fnArgs, fnResult, uiVars>>

\* Step 4 ends: computePCA3D returns; the result is posted
W_MfccPcaPca ==
    /\ wpc = "M_pca"
    /\ LET pcaPoints == computePCA3D(locals.mfcc)
       IN  Post(<<ResultMsg("MFCC_PCA_COMPUTED", cur.run,
                            [points |-> pcaPoints, mfcc |-> locals.mfcc])>>)
    /\ StartPhase(cur.run, NextPhase(wpc))
    /\ wpc' = "idle"
    /\ cur' = NoMsg
    /\ locals' = NoLocals
    /\ UNCHANGED <<mainVars, filterbankLog, inbox, handled, fnArgs, fnResult, uiVars>>

\* case 'CANCEL': break
W_Cancel ==
    /\ Take
    /\ Head(inbox).type = "CANCEL"
    /\ UNCHANGED <<mainVars, filterbankLog, outbox, emitted, phases, wpc, cur, locals,
                   fnArgs, fnResult, uiVars>>

\* default: one ERROR
W_Default ==
    /\ Take
    /\ Head(inbox).type \notin KnownTypes
    /\ Post(DefaultCase(Head(inbox)))
    /\ UNCHANGED <<mainVars, filterbankLog, phases, wpc, cur, locals, fnArgs, fnResult, uiVars>>

(***************************************************************************)
(* audioProcessor.ts: AudioProcessor                                       *)
(***************************************************************************)
Pending == [state |-> "pending", message |-> "", from |-> -1, payload |-> <<>>]
NotCalled == [state |-> "none", message |-> "", from |-> -1, payload |-> <<>>]
Rejected(text, run) ==
    [state |-> "rejected", message |-> text, from |-> run, payload |-> <<>>]
Resolved(run, payload) ==
    [state |-> "resolved", message |-> "", from |-> run, payload |-> payload]

ResultTypeOf(kind) ==
    IF kind = "COMPUTE_SPECTROGRAM" THEN "SPECTROGRAM_COMPUTED"
    ELSE "MFCC_PCA_COMPUTED"

workerVars == <<outbox, wpc, cur, locals, emitted, phases, handled,
               filterbankLog>>

\* computeSpectrogram(samples, sampleRate) and computeMFCCPCA(samples,
\* sampleRate): kind is the type of the request the method posts
Compute(kind, samples, sampleRate) ==
    /\ calls < MaxRuns
    /\ calls' = calls + 1
    /\ IF worker = "null"
       THEN /\ promise' = [promise EXCEPT
                              ![calls] = Rejected("Worker not initialized", -1)]
            /\ UNCHANGED <<messageId, callbacks, inbox, requests>>
       ELSE /\ messageId' = messageId + 1
            /\ callbacks' = Append(callbacks, [id |-> messageId,
                                               call |-> calls, kind |-> kind])
            /\ promise' = [promise EXCEPT ![calls] = Pending]
            /\ inbox' = Append(inbox, [type |-> kind, run |-> calls,
                                       samples |-> samples,
                                       sampleRate |-> sampleRate])
            /\ requests' = [requests EXCEPT
                               ![calls] = [type |-> kind, run |-> calls,
                                           samples |-> samples,
                                           sampleRate |-> sampleRate]]
    /\ UNCHANGED <<worker, workerVars, cancelRequested, cancels, progressSeen,
                   fnArgs, fnResult>>

ComputeSpectrogramCall ==
    /\ \E samples \in SampleChoices, sampleRate \in SampleRates :
           Compute("COMPUTE_SPECTROGRAM", samples, sampleRate)
    /\ UNCHANGED uiVars

ComputeMFCCPCACall ==
    /\ \E samples \in SampleChoices, sampleRate \in SampleRates :
           Compute("COMPUTE_MFCC_PCA", samples, sampleRate)
    /\ UNCHANGED uiVars

\* cancel()
cancel ==
    /\ cancels < MaxCancels
    /\ cancels' = cancels + 1
    /\ IF worker = "live"
       THEN inbox' = Append(inbox, [type |-> "CANCEL", run |-> -1,
                                    samples |-> 0, sampleRate |-> 0])
       ELSE UNCHANGED inbox
    /\ callbacks' = <<>>
    /\ cancelRequested' = cancelRequested \cup
           {callbacks[i].call : i \in 1..Len(callbacks)}
    /\ UNCHANGED <<worker, messageId, promise, calls, workerVars,
                   progressSeen, requests, fnArgs, fnResult>>

\* cancel() called by a user of the AudioProcessor that has no other state
Cancel == cancel /\ UNCHANGED uiVars

\* a terminate() that stops the worker and keeps the callback map
Terminate_KeepCallbacks ==
    /\ worker = "live"
    /\ worker' = "null"
    /\ wpc' = "terminated"
    /\ inbox' = <<>>
    /\ outbox' = <<>>
    /\ UNCHANGED <<messageId, callbacks, promise, calls, cur, locals, emitted,
                   phases, handled, filterbankLog,
                   cancelRequested, cancels, progressSeen, requests, fnArgs,
                   fnResult, uiVars>>

\* terminate()
Terminate ==
    /\ worker = "live"
    /\ worker' = "null"
    /\ callbacks' = <<>>
    /\ wpc' = "terminated"
    /\ inbox' = <<>>
    /\ outbox' = <<>>
    /\ UNCHANGED <<messageId, promise, calls, cur, locals, emitted, phases,
                   handled, filterbankLog,
                   cancelRequested, cancels, progressSeen, requests, fnArgs,
                   fnResult, uiVars>>

Settle(call, value) ==
    [promise EXCEPT ![call] = IF @.state = "pending" THEN value ELSE @]

\* callbacks.delete(id)
Delete(id) == SelectSeq(callbacks, LAMBDA cb : cb.id # id)

\* the callback a terminal response is handed to
PickCallback(response) == callbacks[1]

\* worker.onmessage of the main thread; what onProgress, resolve and reject
\* do outside the AudioProcessor is added by the action that uses it
onmessage ==
    /\ worker = "live"
    /\ outbox # <<>>
    /\ outbox' = Tail(outbox)
    /\ LET response == Head(outbox)
       IN  IF response.type = "PROGRESS"
           THEN /\ progressSeen' =
                       [c \in DOMAIN progressSeen |->
                           IF \E i \in 1..Len(callbacks) : callbacks[i].call = c
                           THEN Append(progressSeen[c],
                                       [run |-> response.run,
                                        progress |-> response.progress])
                           ELSE progressSeen[c]]
                /\ UNCHANGED <<callbacks, promise>>
           ELSE /\ UNCHANGED progressSeen
                /\ IF callbacks = <<>>
                   THEN UNCHANGED <<callbacks, promise>>
                   ELSE LET callback == PickCallback(response)
                        IN  /\ callbacks' = Delete(callback.id)
                            /\ promise' =
                                 IF response.type = "ERROR"
                                 THEN Settle(callback.call,
                                             Rejected(response.message,
                                                      response.run))
                                 ELSE IF response.type = ResultTypeOf(callback.kind)
                                 THEN Settle(callback.call,
                                             Resolved(response.run,
                                                      response.payload))
                                 ELSE promise
    /\ UNCHANGED <<worker, messageId, calls, inbox, wpc, cur, locals, emitted,
                   phases, handled, filterbankLog, cancelRequested, cancels,
                   requests, fnArgs, fnResult>>

\* a response is handed to worker.onmessage, the callbacks have no effect
\* outside the AudioProcessor
Deliver == onmessage /\ UNCHANGED uiVars

\* the worker on its own: any WorkerMessage is posted to it, by whatever
\* holds the Worker object; its responses stay in flight
PostMessage ==
    /\ worker = "live"
    /\ calls < MaxRuns
    /\ calls' = calls + 1
    /\ \E message \in
           [type : {"COMPUTE_SPECTROGRAM", "COMPUTE_MFCC_PCA"}, run : {calls},
            samples : SampleChoices, sampleRate : SampleRates]
           \cup [type : {"CANCEL"} \cup UnknownTypes, run : {calls},
                 samples : {0}, sampleRate : {0}] :
           /\ inbox' = Append(inbox, message)
           /\ requests' = [requests EXCEPT ![calls] = message]
    /\ UNCHANGED <<worker, messageId, callbacks, promise, cancelRequested,
                   cancels, progressSeen, workerVars, fnArgs, fnResult, uiVars>>

(***************************************************************************)
(* App.tsx: App                                                            *)
(***************************************************************************)
\* the state of the component and the runs of handleVideoSelected started so
\* far, each at an await or returned.  "lateSets" is history: the state
\* setters a run called after handleCancel had run during it
NoApp == [processing |-> "null", audioResult |-> "null",
          spectrogramData |-> "null", manifoldData |-> "null",
          error |-> "null", runs |-> <<>>, lateSets |-> {}]

Selections == DOMAIN app.runs

\* the setters in names, called by run sel
Late(a, sel, names) ==
    IF a.runs[sel].cancelled
    THEN {[run |-> sel, state |-> n] : n \in names}
    ELSE {}

\* a promise a run awaits has settled: the run goes on before the main
\* thread takes another event
MicrotaskPending ==
    \E sel \in Selections :
        /\ app.runs[sel].pc \in {"computeSpectrogram", "computeMFCCPCA"}
        /\ promise[app.runs[sel].call].state \in {"resolved", "rejected"}

\* handleVideoSelected up to the await of extractAudio; VideoImport is
\* disabled while processing is set
SelectVideo ==
    /\ ~MicrotaskPending
    /\ app.processing = "null"
    /\ Len(app.runs) < MaxSelections
    /\ \E noise \in BOOLEAN, separation \in BOOLEAN :
          app' = [app EXCEPT
                     !.error = "null",
                     !.audioResult = "null",
                     !.spectrogramData = "null",
                     !.manifoldData = "null",
                     !.processing = "Extracting audio",
                     !.runs = Append(@, [pc |-> "extractAudio",
                                         enableNoiseReduction |-> noise,
                                         enableSourceSeparation |-> separation,
                                         call |-> -1,
                                         cancelled |-> FALSE])]
    /\ UNCHANGED <<procVars, fnArgs, fnResult, recorder>>

\* the catch block of handleVideoSelected
Catch(a, sel) ==
    /\ app' = [a EXCEPT !.error = "Error",
                        !.processing = "null",
                        !.runs[sel].pc = "returned",
                        !.lateSets = @ \cup Late(a, sel, {"error", "processing"})]
    /\ UNCHANGED <<procVars, fnArgs, fnResult, recorder>>

\* at the await of a step of Step 1.5, or of none
Await(a, sel, pc) ==
    /\ app' = [a EXCEPT !.runs[sel].pc = pc]
    /\ UNCHANGED <<procVars, fnArgs, fnResult, recorder>>

\* setAudioResult and Step 2 up to the await of computeSpectrogram
StartSpectrogram(a, sel) ==
    /\ \E samples \in ClipSamples, sampleRate \in SampleRates :
          Compute("COMPUTE_SPECTROGRAM", samples, sampleRate)
    /\ app' = [a EXCEPT
                   !.audioResult = "set",
                   !.processing = "Computing spectrogram",
                   !.runs[sel].pc = "computeSpectrogram",
                   !.runs[sel].call = calls,
                   !.lateSets = @ \cup Late(a, sel, {"audioResult",
                                                     "processing"})]
    /\ UNCHANGED recorder

\* extractAudio settles; Step 1.5 up to its first await
ExtractAudioReturns ==
    /\ ~MicrotaskPending
    /\ \E sel \in Selections :
          /\ app.runs[sel].pc = "extractAudio"
          /\ \E outcome \in {"resolved", "rejected"} :
                LET run == app.runs[sel]
                    \* onProgress of extractAudio
                    progressed ==
                        [app EXCEPT
                            !.processing = "Extracting audio",
                            !.lateSets = @ \cup Late(app, sel, {"processing"})]
                    enhancing == [progressed EXCEPT
                                     !.processing = "Enhancing audio"]
                IN  IF outcome = "rejected" THEN Catch(progressed, sel)
                    ELSE IF run.enableNoiseReduction
                    THEN Await(enhancing, sel, "reduceNoise")
                    ELSE IF run.enableSourceSeparation
                    THEN Await(enhancing, sel, "isolateBirdSong")
                    ELSE StartSpectrogram(progressed, sel)

\* the import of audioEnhancement settles and reduceNoise runs
ReduceNoiseReturns ==
    /\ ~MicrotaskPending
    /\ \E sel \in Selections :
          /\ app.runs[sel].pc = "reduceNoise"
          /\ \E outcome \in {"resolved", "rejected"} :
                LET enhanced ==
                        [app EXCEPT
                            !.processing = "Enhancing audio",
                            !.lateSets = @ \cup Late(app, sel, {"processing"})]
                IN  IF outcome = "rejected" THEN Catch(app, sel)
                    ELSE IF app.runs[sel].enableSourceSeparation
                    THEN Await(enhanced, sel, "isolateBirdSong")
                    ELSE StartSpectrogram(enhanced, sel)

\* isolateBirdSong settles; its failure is caught and logged
IsolateBirdSongReturns ==
    /\ ~MicrotaskPending
    /\ \E sel \in Selections :
          /\ app.runs[sel].pc = "isolateBirdSong"
          /\ \E outcome \in {"resolved", "rejected"} :
                LET isolated ==
                        [app EXCEPT
                            !.processing = "Isolating bird song",
                            !.lateSets = @ \cup Late(app, sel, {"processing"})]
                IN  IF outcome = "rejected" THEN StartSpectrogram(app, sel)
                    ELSE StartSpectrogram(isolated, sel)

\* the promise of computeSpectrogram has settled: Step 3 up to the await of
\* computeMFCCPCA, or the catch block
SpectrogramSettles ==
    \E sel \in Selections :
        /\ app.runs[sel].pc = "computeSpectrogram"
        /\ promise[app.runs[sel].call].state \in {"resolved", "rejected"}
        /\ IF promise[app.runs[sel].call].state = "rejected"
           THEN Catch(app, sel)
           ELSE /\ \E samples \in ClipSamples, sampleRate \in SampleRates :
                      Compute("COMPUTE_MFCC_PCA", samples, sampleRate)
                /\ app' = [app EXCEPT
                               !.spectrogramData = "set",
                               !.processing = "Computing MFCC and PCA",
                               !.runs[sel].pc = "computeMFCCPCA",
                               !.runs[sel].call = calls,
                               !.lateSets =
                                   @ \cup Late(app, sel, {"spectrogramData",
                                                         "processing"})]
                /\ UNCHANGED recorder

\* the promise of computeMFCCPCA has settled
MFCCPCASettles ==
    \E sel \in Selections :
        /\ app.runs[sel].pc = "computeMFCCPCA"
        /\ promise[app.runs[sel].call].state \in {"resolved", "rejected"}
        /\ IF promise[app.runs[sel].call].state = "rejected"
           THEN Catch(app, sel)
           ELSE /\ app' = [app EXCEPT
                               !.manifoldData = "set",
                               !.processing = "null",
                               !.runs[sel].pc = "returned",
                               !.lateSets =
                                   @ \cup Late(app, sel, {"manifoldData",
                                                         "processing"})]
                /\ UNCHANGED <<procVars, fnArgs, fnResult, recorder>>

\* handleCancel; the ProcessingPanel and its button are there while
\* processing is set
handleCancel ==
    /\ ~MicrotaskPending
    /\ app.processing # "null"
    /\ cancel
    /\ app' = [app EXCEPT
                   !.processing = "null",
                   !.error = "Processing cancelled",
                   !.runs = [sel \in DOMAIN @ |->
                                IF @[sel].pc # "returned"
                                THEN [@[sel] EXCEPT !.cancelled = TRUE]
                                ELSE @[sel]]]
    /\ UNCHANGED recorder

\* the run that made a compute call
OwnerOf(call) == CHOOSE sel \in Selections : app.runs[sel].call = call

\* worker.onmessage with the callbacks the App passed: onProgress is
\* setProcessing
DeliverToApp ==
    /\ ~MicrotaskPending
    /\ onmessage
    /\ app' = IF Head(outbox).type = "PROGRESS" /\ callbacks # <<>>
              THEN [app EXCEPT
                       !.processing = "PROGRESS",
                       !.lateSets =
                           @ \cup UNION {Late(app, OwnerOf(callbacks[i].call),
                                              {"processing"}) :
                                             i \in 1..Len(callbacks)}]
              ELSE app
    /\ UNCHANGED recorder

(***************************************************************************)
(* videoRecorder.ts: ManifoldVideoRecorder                                 *)
(***************************************************************************)
\* frames is the length of the frames array; frameCount, lastNotifiedFrame
\* and totalFrames are the variables of the closure of startRecording;
\* timers counts the setTimeout callbacks not yet run; elapsed is
\* floor((performance.now() - startTime) / frameInterval).  History: whether
\* stopRecording was called, the frames stored at its first call, and the
\* timers that ran without capturing
NoRecorder ==
    [started |-> FALSE, isRecording |-> FALSE, frames |-> 0,
     captureCallback |-> "null", duration |-> 0, fps |-> 1,
     totalFrames |-> 0, frameCount |-> 0, lastNotifiedFrame |-> -1,
     timers |-> 0, elapsed |-> 0,
     stopCalled |-> FALSE, framesAtStop |-> 0, dropped |-> 0]

restVars == <<procVars, fnArgs, fnResult, app>>

\* Math.floor(options.duration * options.fps), duration in half seconds
totalFramesOf(duration, fps) == (duration * fps) \div 2

\* startRecording(renderer, options, onFrame); ManifoldView makes a new
\* recorder for every recording
startRecording ==
    /\ ~recorder.started
    /\ \E duration \in 0..MaxDuration, fps \in 1..MaxFps :
          recorder' = [recorder EXCEPT
                          !.started = TRUE,
                          !.frames = 0,
                          !.isRecording = TRUE,
                          !.duration = duration,
                          !.fps = fps,
                          !.totalFrames = totalFramesOf(duration, fps),
                          !.frameCount = 0,
                          !.lastNotifiedFrame = -1,
                          !.captureCallback = "set"]
    /\ UNCHANGED restVars

\* the clock passes a frame interval
Tick ==
    /\ recorder.started
    /\ recorder.elapsed < MaxElapsed
    /\ recorder' = [recorder EXCEPT !.elapsed = @ + 1]
    /\ UNCHANGED restVars

\* the render loop calls getCaptureCallback()?.()
CaptureCallback ==
    /\ recorder.captureCallback = "set"
    /\ LET expectedFrame == recorder.elapsed
           notify == /\ expectedFrame > recorder.lastNotifiedFrame
                     /\ expectedFrame <= recorder.totalFrames
           schedule == /\ expectedFrame >= recorder.frameCount
                       /\ recorder.frameCount < recorder.totalFrames
           finished == recorder.frameCount >= recorder.totalFrames
       IN  IF ~recorder.isRecording THEN UNCHANGED recorder
           ELSE /\ schedule => recorder.timers < MaxTimers
                /\ recorder' =
                     [recorder EXCEPT
                         !.lastNotifiedFrame =
                             IF notify THEN expectedFrame ELSE @,
                         !.timers = IF schedule THEN @ + 1 ELSE @,
                         !.isRecording = IF finished THEN FALSE ELSE @,
                         !.captureCallback = IF finished THEN "null" ELSE @]
    /\ UNCHANGED restVars

\* a capture timer that stores a frame without testing anything
CaptureTimer_Unchecked ==
    /\ recorder.timers > 0
    /\ recorder' = [recorder EXCEPT !.timers = @ - 1,
                                    !.frames = @ + 1,
                                    !.frameCount = @ + 1]
    /\ UNCHANGED restVars

\* the function given to setTimeout runs, 20 ms after it was scheduled
CaptureTimer ==
    /\ recorder.timers > 0
    /\ recorder' =
         IF recorder.isRecording /\ recorder.frameCount < recorder.totalFrames
         THEN [recorder EXCEPT !.timers = @ - 1,
                               !.frames = @ + 1,
                               !.frameCount = @ + 1]
         ELSE [recorder EXCEPT !.timers = @ - 1,
                               !.dropped = @ + 1]
    /\ UNCHANGED restVars

\* stopRecording()
stopRecording ==
    /\ recorder.started
    /\ recorder' = [recorder EXCEPT
                        !.isRecording = FALSE,
                        !.stopCalled = TRUE,
                        !.framesAtStop = IF recorder.stopCalled THEN @
                                         ELSE recorder.frames]
    /\ UNCHANGED restVars

(***************************************************************************)
(* Direct calls of computeSpectrogram with explicit parameters             *)
(***************************************************************************)
NoArgs == [len |-> 0, windowSize |-> 1, hopSize |-> 1, maxFrames |-> 0]
NoResult == [done |-> FALSE, out |-> Ok(NoSpectrogram)]

CallComputeSpectrogram ==
    /\ ~fnResult.done
    /\ fnResult' = [done |-> TRUE,
                    out |-> computeSpectrogram(fnArgs.len, 44100,
                                               fnArgs.windowSize,
                                               fnArgs.hopSize,
                                               fnArgs.maxFrames)]
    /\ UNCHANGED <<procVars, fnArgs, uiVars>>

(***************************************************************************)
(* Direct calls of the other DSP functions: fnArgs.fn names the function   *)
(***************************************************************************)
FFTArgs == [fn : {"computeFFT"}, len : 0..MaxLen, fftSize : 0..MaxFftSize]
ApplyArgs == [fn : {"apply"}, len : 0..MaxLen, fftSize : 0..MaxFftSize]

\* filterbanks whose band edges and mel points are powers of ten, applied to
\* one frame of a silent ("zero") or sounding ("finite") signal
SampleRateChoices == {12600, 138600}
BandEdges == {700 * (p - 1) : p \in PowersOfTen}
MelExact(a) ==
    LET melMin == hzToMel(a.fMin)
        upper == UpperEdge(a.sampleRate, a.fMax)
    IN  /\ upper \in BandEdges
        /\ (hzToMel(upper) - melMin) % (2595 * (a.melBins + 1)) = 0
        /\ \A i \in 1..(a.melBins + 2) :
              melPoints(a.sampleRate, a.melBins, a.fMin, a.fMax)[i] >= 0
MFCCArgs ==
    {a \in [fn : {"computeMFCC"}, sampleRate : SampleRateChoices,
            fftSize : {2, 4}, melBins : 1..MaxMelBins, fMin : BandEdges,
            fMax : BandEdges, magnitude : {"zero", "finite"}] : MelExact(a)}

\* feature values of the frames handed to computePCA3D
FeatureValues == {0, 2}
FrameMatrices ==
    UNION {[1..T -> [1..F -> FeatureValues]] :
               T \in 0..MaxSteps, F \in 1..MaxFeatures}
\* the frames on which the integer run is the floating-point run
PCAArgs ==
    {[fn |-> "computePCA3D", frames |-> frames] :
        frames \in {m \in FrameMatrices : computePCA3DValues(m).exact}}

\* sample buffers handed to computeSpectrogram, the empty one included
SampleValues == {0, 1, 2}
PreEmphasisArgs ==
    [fn : {"preEmphasis"},
     samples : UNION {[1..n -> SampleValues] : n \in 0..MaxSamples}]

\* the pre-emphasis of a call of computeSpectrogram
CallPreEmphasis ==
    /\ ~fnResult.done
    /\ fnArgs.fn = "preEmphasis"
    /\ fnResult' = [done |-> TRUE, out |-> preEmphasis(fnArgs.samples)]
    /\ UNCHANGED <<procVars, fnArgs, uiVars>>

CallComputeFFT ==
    /\ ~fnResult.done
    /\ fnArgs.fn = "computeFFT"
    /\ fnResult' = [done |-> TRUE,
                    out |-> computeFFT(fnArgs.len, fnArgs.fftSize)]
    /\ UNCHANGED <<procVars, fnArgs, uiVars>>

CallApply ==
    /\ ~fnResult.done
    /\ fnArgs.fn = "apply"
    /\ fnResult' = [done |-> TRUE,
                    out |-> apply(MelFilterbank(44100, fnArgs.fftSize),
                                  fnArgs.len)]
    /\ UNCHANGED <<procVars, fnArgs, uiVars>>

\* computeMFCC on one frame, with a filterbank built for it
CallComputeMFCC ==
    /\ ~fnResult.done
    /\ fnArgs.fn = "computeMFCC"
    /\ LET fb == MelFilterbankValues(fnArgs.sampleRate, fnArgs.fftSize,
                                     fnArgs.melBins, fnArgs.fMin, fnArgs.fMax)
           frame == [freqIdx \in 1..((fnArgs.fftSize \div 2) + 1) |->
                        fnArgs.magnitude]
       IN  fnResult' = [done |-> TRUE,
                        out |-> computeMFCCValues(<<frame>>, fb, mfccCount)]
    /\ UNCHANGED <<procVars, fnArgs, uiVars>>

CallComputePCA3D ==
    /\ ~fnResult.done
    /\ fnArgs.fn = "computePCA3D"
    /\ fnResult' = [done |-> TRUE, out |-> computePCA3DValues(fnArgs.frames)]
    /\ UNCHANGED <<procVars, fnArgs, uiVars>>

(***************************************************************************)
(* Specifications                                                          *)
(***************************************************************************)
\* the App before a video is selected, the recorder before startRecording
InitUI ==
    /\ app = NoApp
    /\ recorder = NoRecorder

InitProc ==
    /\ worker = "live"
    /\ messageId = 0
    /\ callbacks = <<>>
    /\ promise = [c \in 0..(MaxRuns - 1) |-> NotCalled]
    /\ calls = 0
    /\ inbox = <<>>
    /\ outbox = <<>>
    /\ wpc = "idle"
    /\ cur = NoMsg
    /\ locals = NoLocals
    /\ emitted = <<>>
    /\ phases = [c \in 0..(MaxRuns - 1) |-> <<>>]
    /\ handled = 0
    /\ cancelRequested = {}
    /\ cancels = 0
    /\ progressSeen = [c \in 0..(MaxRuns - 1) |-> <<>>]
    /\ requests = [c \in 0..(MaxRuns - 1) |-> NoMsg]
    /\ filterbankLog = <<>>

Init ==
    /\ InitProc
    /\ fnArgs = NoArgs
    /\ fnResult = NoResult
    /\ InitUI

Next ==
    \/ ComputeSpectrogramCall
    \/ ComputeMFCCPCACall
    \/ Cancel
    \/ Terminate
    \/ Deliver
    \/ W_SpectrogramStart
    \/ W_SpectrogramFinish
    \/ W_MfccPcaStart
    \/ W_MfccPcaSpectrogram
    \/ W_MfccPcaMel
    \/ W_MfccPcaMfcc
    \/ W_MfccPcaPca
    \/ W_Cancel

Spec == Init /\ [][Next]_vars

\* a step of self.onmessage
WorkerStep ==
    \/ W_SpectrogramStart
    \/ W_SpectrogramFinish
    \/ W_MfccPcaStart
    \/ W_MfccPcaSpectrogram
    \/ W_MfccPcaMel
    \/ W_MfccPcaMfcc
    \/ W_MfccPcaPca
    \/ W_Cancel

\* the worker thread runs every handler to its end and takes every message
\* of its queue; the main thread's event loop runs worker.onmessage for
\* every response.  Calls of the AudioProcessor's methods are up to its
\* user: none has to happen.
SpecLive == Spec /\ WF_vars(WorkerStep) /\ WF_vars(Deliver)

\* the AudioProcessor and its worker when every request is made on the same
\* clip: the calls, their interleavings with the worker and with
\* worker.onmessage are all there, the buffers do not vary
ComputeSpectrogramOfClip ==
    /\ \E samples \in ClipSamples, sampleRate \in SampleRates :
           Compute("COMPUTE_SPECTROGRAM", samples, sampleRate)
    /\ UNCHANGED uiVars

ComputeMFCCPCAOfClip ==
    /\ \E samples \in ClipSamples, sampleRate \in SampleRates :
           Compute("COMPUTE_MFCC_PCA", samples, sampleRate)
    /\ UNCHANGED uiVars

NextLifecycle ==
    \/ ComputeSpectrogramOfClip
    \/ ComputeMFCCPCAOfClip
    \/ Cancel
    \/ Terminate
    \/ Deliver
    \/ W_SpectrogramStart
    \/ W_SpectrogramFinish
    \/ W_MfccPcaStart
    \/ W_MfccPcaSpectrogram
    \/ W_MfccPcaMel
    \/ W_MfccPcaMfcc
    \/ W_MfccPcaPca
    \/ W_Cancel

SpecLifecycle == Init /\ [][NextLifecycle]_vars

\* the App with its AudioProcessor and the worker
NextApp ==
    \/ SelectVideo
    \/ ExtractAudioReturns
    \/ ReduceNoiseReturns
    \/ IsolateBirdSongReturns
    \/ SpectrogramSettles
    \/ MFCCPCASettles
    \/ handleCancel
    \/ DeliverToApp
    \/ W_SpectrogramStart
    \/ W_SpectrogramFinish
    \/ W_MfccPcaStart
    \/ W_MfccPcaSpectrogram
    \/ W_MfccPcaMel
    \/ W_MfccPcaMfcc
    \/ W_MfccPcaPca
    \/ W_Cancel

SpecApp == Init /\ [][NextApp]_vars

\* one ManifoldVideoRecorder, the render loop, its timers and its user
NextRecorder ==
    \/ startRecording
    \/ Tick
    \/ CaptureCallback
    \/ CaptureTimer
    \/ stopRecording

SpecRecorder == Init /\ [][NextRecorder]_vars

\* the worker with any WorkerMessage reaching it
NextProtocol ==
    \/ PostMessage
    \/ W_SpectrogramStart
    \/ W_SpectrogramFinish
    \/ W_MfccPcaStart
    \/ W_MfccPcaSpectrogram
    \/ W_MfccPcaMel
    \/ W_MfccPcaMfcc
    \/ W_MfccPcaPca
    \/ W_Cancel
    \/ W_Default

SpecProtocol == Init /\ [][NextProtocol]_vars

\* computeSpectrogram called directly, over all small parameter values
InitDSP ==
    /\ InitProc
    /\ fnArgs \in [len : 0..MaxLen, windowSize : 1..MaxWindow,
                   hopSize : 1..MaxHop, maxFrames : 0..MaxCap]
    /\ fnResult = NoResult
    /\ InitUI

NextDSP == CallComputeSpectrogram

SpecDSP == InitDSP /\ [][NextDSP]_vars

\* one direct call of one DSP function, over all small arguments
InitUnit ==
    /\ InitProc
    /\ fnArgs \in FFTArgs \cup ApplyArgs \cup PCAArgs \cup MFCCArgs
                  \cup PreEmphasisArgs
    /\ fnResult = NoResult
    /\ InitUI

NextUnit ==
    \/ CallComputeFFT
    \/ CallApply
    \/ CallComputePCA3D
    \/ CallComputeMFCC
    \/ CallPreEmphasis

SpecUnit == InitUnit /\ [][NextUnit]_vars

(***************************************************************************)
(* Properties                                                              *)
(***************************************************************************)
Runs == 0..(MaxRuns - 1)

EmittedOf(run) == SelectSeq(emitted, LAMBDA m : m.run = run)
TerminalsOf(run) == SelectSeq(EmittedOf(run), IsTerminal)
ProgressOfRun(run) == SelectSeq(EmittedOf(run), LAMBDA m : m.type = "PROGRESS")

Started(run) == phases[run] # <<>>
RunKind(run) ==
    IF phases[run][1] = "S_spectrogram" THEN "COMPUTE_SPECTROGRAM"
    ELSE "COMPUTE_MFCC_PCA"
\* self.onmessage took the request of the run and has returned
HandlerReturned(run) == Started(run) /\ cur.run # run

InOutbox(m) == \E i \in 1..Len(outbox) : outbox[i] = m

\* C1: once cancel() has been called for a run, the worker posts no
\* SPECTROGRAM_COMPUTED and no MFCC_PCA_COMPUTED for that run.
C1_NoResultAfterCancel ==
    [][\A i \in (Len(emitted) + 1)..Len(emitted') :
          IsResult(emitted'[i]) => emitted'[i].run \notin cancelRequested
      ]_vars

\* C2: every run posts at most one terminal message, nothing after it, the
\* terminal message is ERROR or the result of the request's type, and a run
\* whose handler has returned has posted exactly one.
C2_OneTerminalLast ==
    \A r \in Runs :
        LET ms == EmittedOf(r)
            ts == TerminalsOf(r)
        IN  /\ Len(ts) <= 1
            /\ Len(ts) = 1 => IsTerminal(ms[Len(ms)])
            /\ Started(r) =>
                 /\ Len(ts) = 1 =>
                      ts[1].type \in {"ERROR", ResultTypeOf(RunKind(r))}
                 /\ HandlerReturned(r) => Len(ts) = 1

C2_Witness ==
    /\ \E r \in Runs : HandlerReturned(r) /\ TerminalsOf(r)[1].type = "ERROR"
    /\ \E r \in Runs : HandlerReturned(r) /\ IsResult(TerminalsOf(r)[1])

MfccOrder == <<"M_spectrogram", "M_mel", "M_mfcc", "M_pca", "M_result">>

\* C3: in a COMPUTE_MFCC_PCA run the phases start in the order spectrogram,
\* mel filterbank, MFCC, PCA, result, none skipped or repeated; a phase is
\* in flight only with the output of the phases before it complete; and the
\* result is posted only after the PCA phase.
C3_LinearPhases ==
    \A r \in Runs :
        (Started(r) /\ RunKind(r) = "COMPUTE_MFCC_PCA") =>
            /\ Len(phases[r]) <= Len(MfccOrder)
            /\ phases[r] = SubSeq(MfccOrder, 1, Len(phases[r]))
            /\ (cur.run = r /\ wpc # "terminated") =>
                 /\ wpc = phases[r][Len(phases[r])]
                 /\ wpc \in {"M_mel", "M_mfcc", "M_pca"} =>
                      locals.spectrogram # NoSpectrogram
                 /\ wpc \in {"M_mfcc", "M_pca"} =>
                      locals.melFilterbank # NoFilterbank
                 /\ wpc = "M_pca" =>
                      Len(locals.mfcc) = Len(locals.spectrogram.data)
            /\ (\E i \in 1..Len(emitted) :
                    emitted[i].run = r /\ IsResult(emitted[i]))
                 => phases[r] = MfccOrder

C3_Witness ==
    \E r \in Runs :
        /\ phases[r] = MfccOrder
        /\ \E i \in 1..Len(emitted) :
              emitted[i].run = r /\ emitted[i].type = "MFCC_PCA_COMPUTED"

\* C4: within a run every PROGRESS fraction lies in [0,1] and the fractions
\* increase in the order they are posted.
C4_ProgressMonotonic ==
    \A r \in Runs :
        LET ps == ProgressOfRun(r)
        IN  /\ \A i \in 1..Len(ps) :
                  ps[i].progress >= 0 /\ ps[i].progress <= 10  \* tenths
            /\ \A i \in 1..(Len(ps) - 1) : ps[i].progress < ps[i + 1].progress

C4_Witness ==
    /\ \E r \in Runs : Started(r) /\ RunKind(r) = "COMPUTE_MFCC_PCA"
                       /\ Len(ProgressOfRun(r)) = 4
    /\ \E r \in Runs : Started(r) /\ RunKind(r) = "COMPUTE_SPECTROGRAM"
                       /\ Len(ProgressOfRun(r)) = 2

\* C5: the AudioProcessor never holds two pending runs at the same time.
C5_OnePendingRun == Len(callbacks) <= 1

\* C6: once cancel() has been called for the run the worker is handling, the
\* worker starts no later phase of that run and posts no further PROGRESS
\* for it.
C6_CancelAtBoundary ==
    [][(cur.run \in cancelRequested /\ wpc \notin {"idle", "terminated"}) =>
          /\ phases'[cur.run] = phases[cur.run]
          /\ \A i \in (Len(emitted) + 1)..Len(emitted') :
                ~(emitted'[i].run = cur.run /\ emitted'[i].type = "PROGRESS")
      ]_vars

\* C7: a message of a type other than COMPUTE_SPECTROGRAM, COMPUTE_MFCC_PCA
\* and CANCEL taken by the worker makes it post exactly one response, an
\* ERROR.
C7_UnknownTypeOneError ==
    [][(handled' = handled + 1 /\ Head(inbox).type \notin KnownTypes) =>
          /\ Len(emitted') = Len(emitted) + 1
          /\ emitted'[Len(emitted')].type = "ERROR"
          /\ outbox' = Append(outbox, emitted'[Len(emitted')])
      ]_vars

C7_Witness ==
    \E i \in 1..Len(emitted) :
        emitted[i].type = "ERROR" /\ emitted[i].message = "Unknown message type"

\* C8: the ERROR of a run whose phase threw, once delivered to the
\* AudioProcessor, has rejected the promise of that run with its message
\* (runs for which cancel() was called are left aside).
C8_ErrorRejectsOwnPromise ==
    \A i \in 1..Len(emitted) :
        LET m == emitted[i]
        IN  (/\ m.type = "ERROR"
             /\ m.run \in Runs
             /\ m.run \notin cancelRequested
             /\ worker = "live"
             /\ ~InOutbox(m))
            => /\ promise[m.run].state = "rejected"
               /\ promise[m.run].message = m.message

\* C9: when a COMPUTE_MFCC_PCA run posts its result, points and mfcc have one
\* row per frame of the spectrogram of that run, in frame order, every point
\* has 3 components and every mfcc row mfccCount coefficients.
C9_ResultShape ==
    [][(wpc = "M_pca" /\ wpc' = "idle") =>
          LET m == emitted'[Len(emitted')]
              T == Len(locals.spectrogram.data)
          IN  /\ Len(emitted') = Len(emitted) + 1
              /\ m.type = "MFCC_PCA_COMPUTED"
              /\ Len(m.payload.points) = T
              /\ Len(m.payload.mfcc) = T
              /\ \A t \in 1..T :
                    /\ m.payload.points[t] = [idx |-> t - 1, len |-> 3]
                    /\ m.payload.mfcc[t] = [idx |-> t - 1, len |-> mfccCount]
                    /\ locals.spectrogram.data[t].idx = t - 1
      ]_vars

C9_Witness ==
    \E i \in 1..Len(emitted) :
        /\ emitted[i].type = "MFCC_PCA_COMPUTED"
        /\ Len(emitted[i].payload.points) >= 2

FullWindows(len, wSize, hSize) == ((len - wSize) \div hSize) + 1

\* C10 as stated: the frame count of computeSpectrogram is
\* min(maxFrames, floor((len - windowSize)/hopSize) + 1) and it does not throw.
C10_FrameCountAsStated ==
    fnResult.done =>
        /\ ~fnResult.out.threw
        /\ fnResult.out.val.nFrames =
             Min(fnArgs.maxFrames,
                 FullWindows(fnArgs.len, fnArgs.windowSize, fnArgs.hopSize))

\* C10 amended: for len >= 0, windowSize >= 1, hopSize >= 1 and maxFrames >= 0
\* the frame count of computeSpectrogram is
\* max(0, min(maxFrames, floor((len - windowSize)/hopSize) + 1)); it never
\* throws, also when the cap cuts frames off.
C10_FrameCount ==
    fnResult.done =>
        /\ ~fnResult.out.threw
        /\ fnResult.out.val.nFrames =
             Max(0, Min(fnArgs.maxFrames,
                        FullWindows(fnArgs.len, fnArgs.windowSize,
                                    fnArgs.hopSize)))
        /\ Len(fnResult.out.val.data) = fnResult.out.val.nFrames

C10_Witness ==
    /\ fnResult.done
    /\ fnArgs.maxFrames >= 1
    /\ fnArgs.maxFrames
         < FullWindows(fnArgs.len, fnArgs.windowSize, fnArgs.hopSize)
    /\ fnResult.out.val.nFrames = fnArgs.maxFrames

\* the request in hand carries fewer samples than one window
ShortBuffer(m) == m.samples # NoSamples /\ m.samples < windowSize

\* C11: a request with fewer samples than one window (the empty buffer
\* included) posts no ERROR: computeSpectrogram returns zero frames with
\* nBins 0, every later phase is entered, and the COMPUTE_MFCC_PCA run ends
\* with MFCC_PCA_COMPUTED carrying empty points and empty mfcc.
C11_ShortInputEmptyResult ==
    [][(wpc # "idle" /\ wpc' # wpc /\ ShortBuffer(cur)) =>
          /\ \A i \in (Len(emitted) + 1)..Len(emitted') :
                emitted'[i].type # "ERROR"
          /\ wpc = "M_spectrogram" =>
                /\ wpc' = "M_mel"
                /\ locals'.spectrogram.data = <<>>
                /\ locals'.spectrogram.nFrames = 0
                /\ locals'.spectrogram.nBins = 0
          /\ wpc = "S_spectrogram" =>
                /\ emitted'[Len(emitted')].type = "SPECTROGRAM_COMPUTED"
                /\ emitted'[Len(emitted')].payload.data = <<>>
          /\ wpc \in {"M_mel", "M_mfcc"} => wpc' = NextPhase(wpc)
          /\ wpc = "M_pca" =>
                /\ Len(emitted') = Len(emitted) + 1
                /\ emitted'[Len(emitted')].type = "MFCC_PCA_COMPUTED"
                /\ emitted'[Len(emitted')].payload.points = <<>>
                /\ emitted'[Len(emitted')].payload.mfcc = <<>>
      ]_vars

C11_Witness ==
    \E i \in 1..Len(emitted) :
        /\ emitted[i].type = "MFCC_PCA_COMPUTED"
        /\ emitted[i].payload.points = <<>>
        /\ emitted[i].payload.mfcc = <<>>

PowersOfTwo == {2 ^ k : k \in 0..MaxStack}
SmallestPowerOfTwoAtLeast(n) ==
    CHOOSE p \in PowersOfTwo :
        p >= n /\ \A q \in PowersOfTwo : q >= n => p <= q

\* C12: a spectrogram has at most maxFrames frames, every frame has
\* floor(fftSize/2)+1 bins where fftSize is the smallest power of two that is
\* at least windowSize, and nFrames and nBins are the shape of data.
C12_SpectrogramShape ==
    fnResult.done =>
        LET s == fnResult.out.val
            fftSize == SmallestPowerOfTwoAtLeast(fnArgs.windowSize)
        IN  /\ ~fnResult.out.threw
            /\ Len(s.data) <= fnArgs.maxFrames
            /\ \A t \in 1..Len(s.data) : s.data[t].len = (fftSize \div 2) + 1
            /\ s.nFrames = Len(s.data)
            /\ s.nBins = IF Len(s.data) > 0 THEN s.data[1].len ELSE 0

C12_Witness ==
    /\ fnResult.done
    /\ fnArgs.windowSize = 3
    /\ fnResult.out.val.nFrames >= 2
    /\ fnResult.out.val.nBins = 3

C14_FFTAlwaysReturns ==
    (fnResult.done /\ fnArgs.fn = "computeFFT") => ~fnResult.out.threw

\* C15: apply throws the size mismatch exactly when the input length is not
\* floor(fftSize/2)+1, and returns melBins values otherwise.
C15_ApplySizeCheck ==
    (fnResult.done /\ fnArgs.fn = "apply") =>
        /\ fnResult.out.threw <=> fnArgs.len # (fnArgs.fftSize \div 2) + 1
        /\ fnResult.out.threw =>
             fnResult.out.message = "Magnitude spectrum size mismatch"
        /\ ~fnResult.out.threw => fnResult.out.len = melBins

C15_Witness ==
    /\ fnResult.done
    /\ fnArgs.fn = "apply"
    /\ fnArgs.fftSize = 8
    /\ ~fnResult.out.threw
    /\ fnResult.out.len = melBins

\* C18 as stated: a SPECTROGRAM_COMPUTED response carries the magnitude
\* matrix together with sampleRate, hopSize and windowSize.
C18_SpectrogramResultFields ==
    \A i \in 1..Len(emitted) :
        emitted[i].type = "SPECTROGRAM_COMPUTED" =>
            {"data", "sampleRate", "hopSize", "windowSize"}
                \subseteq DOMAIN emitted[i].payload

\* C18 amended: a SPECTROGRAM_COMPUTED response carries exactly the magnitude
\* matrix (one row of floor(fftSize/2)+1 bins per frame of the request's
\* samples) and the request's sampleRate; hopSize and windowSize are not in
\* the response.
C18_SpectrogramResultPayload ==
    [][(wpc = "S_spectrogram" /\ wpc' = "idle"
          /\ emitted'[Len(emitted')].type # "ERROR") =>
          LET m == emitted'[Len(emitted')]
              T == Max(0, Min(maxFrames,
                              FullWindows(cur.samples, windowSize, hopSize)))
          IN  /\ m.type = "SPECTROGRAM_COMPUTED"
              /\ DOMAIN m.payload = {"data", "sampleRate"}
              /\ m.payload.sampleRate = cur.sampleRate
              /\ Len(m.payload.data) = T
              /\ \A t \in 1..T :
                    m.payload.data[t] =
                        [idx |-> t - 1, len |-> (windowSize \div 2) + 1]
      ]_vars

C18_Witness ==
    \E i \in 1..Len(emitted) :
        /\ emitted[i].type = "SPECTROGRAM_COMPUTED"
        /\ Len(emitted[i].payload.data) >= 2
        /\ emitted[i].payload.sampleRate = 44100

\* the responses of a run with the run tag of the model taken off
Untagged(ms) == [i \in 1..Len(ms) |-> [ms[i] EXCEPT !.run = 0]]

SameRequest(a, b) ==
    /\ requests[a].type = requests[b].type
    /\ requests[a].samples = requests[b].samples
    /\ requests[a].sampleRate = requests[b].sampleRate

C17_SingleFramePCA ==
    (fnResult.done /\ fnArgs.fn = "computePCA3D" /\ Len(fnArgs.frames) = 1) =>
        LET out == fnResult.out
        IN  /\ Len(out.points) = 1
            /\ Len(out.points[1]) = 3
            /\ \A d \in 1..Len(out.divisors) : out.divisors[d].by # 0
            /\ \A d \in 1..Len(out.divisors) :
                  out.divisors[d].site = "scale" => out.divisors[d].by = 1
            /\ \A pc \in 1..3 :
                  ~AboveEpsilon(out.std[pc]) =>
                      /\ out.points[1][pc] = 0
                      /\ \A d \in 1..Len(out.divisors) :
                            out.divisors[d].site # "zscore"

C17_Witness ==
    /\ fnResult.done
    /\ fnArgs.fn = "computePCA3D"
    /\ fnArgs.frames = <<<<2, 0, 2>>>>
    /\ fnResult.out.points = <<<<0, 0, 0>>>>

\* C20: every principal axis computeTopEigenvectors returns has norm 1, for
\* every covariance matrix, the all-zero one included.
C20_AxesUnitNorm ==
    (fnResult.done /\ fnArgs.fn = "computePCA3D" /\ Len(fnArgs.frames) > 0) =>
        \A pc \in 1..Len(fnResult.out.components) :
            Dot(fnResult.out.components[pc], fnResult.out.components[pc]) = 1

\* C16: every coefficient computeMFCC returns is finite, for a silent signal
\* and for a filterbank whose band edges are equal as for any other.
C16_FeaturesFinite ==
    (fnResult.done /\ fnArgs.fn = "computeMFCC") =>
        \A t \in 1..Len(fnResult.out) :
            \A k \in 1..Len(fnResult.out[t]) : IsFinite(fnResult.out[t][k])

\* C21: computeTopEigenvectors returns exactly 3 axes of featureCount entries
\* each and makes exactly 10 power-iteration rounds for every axis, whatever
\* the data: the work of its rounds, 3 * 10 * featureCount^2 multiplications,
\* depends on the feature count alone.
C21_FixedRounds ==
    (fnResult.done /\ fnArgs.fn = "computePCA3D" /\ Len(fnArgs.frames) > 0) =>
        LET out == fnResult.out
            featureCount == Len(fnArgs.frames[1])
        IN  /\ Len(out.components) = 3
            /\ \A pc \in 1..3 : Len(out.components[pc]) = featureCount
            /\ out.rounds = <<10, 10, 10>>
            /\ out.products = 3 * 10 * featureCount * featureCount

\* a covariance that is all zero, on which the vector vanishes in round 1
C21_Witness ==
    /\ fnResult.done
    /\ fnArgs.fn = "computePCA3D"
    /\ fnArgs.frames = <<<<2, 2>>, <<2, 2>>>>
    /\ fnResult.out.components = <<<<0, 0>>, <<0, 0>>, <<0, 0>>>>
    /\ fnResult.out.rounds = <<10, 10, 10>>

FilterbankLogOf(run) == SelectSeq(filterbankLog, LAMBDA e : e.run = run)

\* C22: in a COMPUTE_MFCC_PCA run the MelFilterbank is constructed exactly
\* once, before the first frame is filtered and whatever the number of
\* frames; every apply of the run is made on that object with the filter
\* table it was built with, and the object is the same when computeMFCC has
\* returned.
C22_OneFilterbankPerRun ==
    \A r \in Runs :
        LET log == FilterbankLogOf(r)
        IN  /\ \A i \in 1..Len(log) : (log[i].op = "new") <=> (i = 1)
            /\ \A i \in 1..Len(log) : log[i].fb = log[1].fb
            /\ (Started(r) /\ Len(phases[r]) >= 3) => Len(log) >= 1
            /\ (cur.run = r /\ wpc \in {"M_mfcc", "M_pca"}) =>
                  /\ locals.melFilterbank = log[1].fb
                  /\ wpc = "M_pca" =>
                        Len(log) = 1 + Len(locals.spectrogram.data)

C22_Witness ==
    \E r \in Runs :
        /\ cur.run = r
        /\ wpc = "M_pca"
        /\ Len(locals.spectrogram.data) >= 2
        /\ Len(FilterbankLogOf(r)) = 3

\* nothing is left to happen unless the AudioProcessor is called again: the
\* worker has answered every request it received and worker.onmessage has
\* run for every response
AtRest ==
    /\ inbox = <<>>
    /\ outbox = <<>>
    /\ wpc \in {"idle", "terminated"}

\* C23: every promise returned by computeSpectrogram or computeMFCCPCA is
\* eventually resolved or rejected: once the worker has answered every
\* request and every response has been handed to worker.onmessage, no
\* promise is left pending.  (A run that stays at rest for ever is a fair
\* one, so a pending promise at rest is a promise that never settles.)
C23_EveryPromiseSettles ==
    AtRest => \A c \in Runs : promise[c].state # "pending"

\* C24: a terminal response is handed only to the callback of the request
\* that produced it, and only that response removes the callback's entry: in
\* particular the late response to a request for which cancel() was called
\* is not handed to the callback of a request issued after the cancel().
C24_ResponseToOwnCallback ==
    [][(/\ worker' = "live"
        /\ outbox # <<>>
        /\ outbox' = Tail(outbox)
        /\ IsTerminal(Head(outbox))
        /\ callbacks' # callbacks) =>
          PickCallback(Head(outbox)).call = Head(outbox).run
      ]_vars

\* C25: the onProgress callback of a request is given only the PROGRESS
\* messages of that request's own run, so the fractions it is given
\* increase, also with two requests pending.
C25_OwnProgressOnly ==
    \A c \in Runs :
        /\ \A i \in 1..Len(progressSeen[c]) : progressSeen[c][i].run = c
        /\ \A i \in 1..(Len(progressSeen[c]) - 1) :
              progressSeen[c][i].progress < progressSeen[c][i + 1].progress

\* C26: once terminate() has run, the worker reference is null and the
\* callback map is empty, and they stay so; every later computeSpectrogram
\* or computeMFCCPCA call rejects its promise with 'Worker not initialized',
\* registers no callback, takes no message id and posts nothing; a later
\* cancel() posts nothing.
C26_AfterTerminate ==
    [][/\ worker' = "null" => callbacks' = <<>>
       /\ worker = "null" =>
             /\ worker' = "null"
             /\ inbox' = inbox
             /\ messageId' = messageId
             /\ calls' # calls =>
                   /\ calls' = calls + 1
                   /\ promise' =
                        [promise EXCEPT
                            ![calls] = Rejected("Worker not initialized", -1)]
      ]_vars

C26_Witness ==
    /\ worker = "null"
    /\ cancels = 1
    /\ \E c \in Runs :
          /\ promise[c].state = "rejected"
          /\ promise[c].message = "Worker not initialized"
    /\ \E c \in Runs : promise[c].state = "pending"

\* C27: in a COMPUTE_MFCC_PCA run the filterbank is built for the FFT size
\* (bins-1)*2 of the spectrogram just computed, 2048 when it has no frame;
\* floor(fftSize/2)+1 is then the bin count of every frame, computeMFCC
\* returns one row per frame and no size mismatch is thrown.
C27_FilterbankMatchesSpectrogram ==
    [][/\ (wpc = "M_mel" /\ wpc' # wpc) =>
             LET data == locals.spectrogram.data
                 fb == locals'.melFilterbank
             IN  /\ wpc' = "M_mfcc"
                 /\ fb.fftSize = IF data = <<>> THEN 2048
                                 ELSE (data[1].len - 1) * 2
                 /\ \A t \in 1..Len(data) :
                       data[t].len = (fb.fftSize \div 2) + 1
       /\ (wpc = "M_mfcc" /\ wpc' # wpc) =>
             /\ wpc' = "M_pca"
             /\ Len(locals'.mfcc) = Len(locals.spectrogram.data)
             /\ \A i \in (Len(emitted) + 1)..Len(emitted') :
                   emitted'[i].type # "ERROR"
      ]_vars

C27_Witness ==
    /\ wpc = "M_pca"
    /\ Len(locals.mfcc) >= 2
    /\ locals.melFilterbank.fftSize = 2048
    /\ locals.spectrogram.nBins = 1025

\* C28: computeSpectrogram leaves the caller's samples as they were (the
\* filter writes to preEmphasized) and computePCA3D leaves the feature
\* matrix it was given as it was (it centers a copy): the mfcc posted with
\* the points is the uncentered output of computeMFCC.
C28_InputsUnchanged ==
    fnResult.done =>
        /\ fnArgs.fn = "preEmphasis" =>
              /\ fnResult.out.samples = fnArgs.samples
              /\ Len(fnResult.out.preEmphasized) = Len(fnArgs.samples)
        /\ fnArgs.fn = "computePCA3D" =>
              fnResult.out.frames = fnArgs.frames

\* a buffer that the filter changes
C28_FilteredBuffer ==
    /\ fnResult.done
    /\ fnArgs.fn = "preEmphasis"
    /\ fnArgs.samples = <<1, 2>>
    /\ fnResult.out.preEmphasized = <<100, 103>>

\* two frames whose feature means are not zero
C28_Witness ==
    /\ fnResult.done
    /\ fnArgs.fn = "computePCA3D"
    /\ fnArgs.frames = <<<<2, 0>>, <<0, 0>>>>
    /\ fnResult.out.points[1][1] = 1
    /\ fnResult.out.frames = <<<<2, 0>>, <<0, 0>>>>

\* C29: once handleCancel has run during a run of handleVideoSelected, that
\* run sets processing, spectrogramData and manifoldData no more, at
\* whichever await the cancel arrived.
C29_NoSetAfterCancel ==
    \A e \in app.lateSets :
        e.state \notin {"processing", "spectrogramData", "manifoldData"}

\* C30: a ManifoldVideoRecorder never holds more than floor(duration*fps)
\* frames, and once stopRecording() has been called it holds the frames it
\* held at that call, however the render loop's calls of the capture
\* callback and the capture timers interleave.
C30_FramesBounded ==
    /\ recorder.frames <= (recorder.duration * recorder.fps) \div 2
    /\ recorder.stopCalled => recorder.frames = recorder.framesAtStop

\* stopRecording called with timers pending, which then ran
C30_Witness ==
    /\ recorder.stopCalled
    /\ recorder.totalFrames = 3
    /\ recorder.frames >= 1
    /\ recorder.dropped >= 2
    /\ recorder.timers = 0

====
